---- MODULE Spec2Model ----
(***************************************************************************)
(* Slippi playback: the savestate (snapshot) thread, the seek thread and   *)
(* the per-frame hook of Source/Core/Core/Slippi/SlippiPlayback.cpp.       *)
(***************************************************************************)
EXTENDS Integers, Sequences, FiniteSets, TLC

\* ------------------------------------------------------------------------
\* Program constants
\* ------------------------------------------------------------------------
FRAME_INTERVAL == 900

INT_MAX == 2147483647

INT_MIN == (-INT_MAX) - 1

GAME_FIRST_FRAME == -123

\* first frame at which a state is saved; the hook's phase offset (+ 122)
PLAYBACK_FIRST_SAVE == -122

\* u32 jumpInterval = 300
jumpInterval == 300

\* the literal of "numDiffsProcessing > 3"
DiffCap == 3

\* ------------------------------------------------------------------------
\* Bounds of the model
\* ------------------------------------------------------------------------
\* frames the machine may advance while a thread is ready to take a step
MaxLag == 1

\* ------------------------------------------------------------------------
\* 32 bit arithmetic
\* ------------------------------------------------------------------------
\* a + b on s32, wrapping modulo 2^32 (no intermediate leaves the s32 range)
Add32(a, b) ==
    IF b > 0 /\ a > INT_MAX - b THEN (a + INT_MIN) + (b + INT_MIN)
    ELSE IF b < 0 /\ a < INT_MIN - b THEN (a - INT_MIN) + (b - INT_MIN)
    ELSE a + b

\* a - b on s32, wrapping modulo 2^32
Sub32(a, b) ==
    IF b = INT_MIN THEN Add32(Add32(a, INT_MAX), 1) ELSE Add32(a, -b)

\* std::abs on s32; abs(INT_MIN) stays INT_MIN in two's complement
Abs32(b) == IF b = INT_MIN THEN INT_MIN ELSE IF b < 0 THEN -b ELSE b

\* the C++ operator % on s32: the remainder has the sign of the dividend
CRem(a, b) ==
    IF b = INT_MIN THEN (IF a = INT_MIN THEN 0 ELSE a)
    ELSE LET m == a % Abs32(b)
         IN  IF a >= 0 \/ m = 0 THEN m ELSE m - Abs32(b)

\* the remainder of the division as C++ gives it, sign of the dividend kept
emodNoFix(a, b) == CRem(a, b)

\* s32 emod(s32 a, s32 b)
emod(a, b) ==
    LET r == CRem(a, b)
    IN  IF r >= 0 THEN r ELSE Add32(r, Abs32(b))

\* s32 closestStateFrame = targetFrameNum - emod(targetFrameNum - PLAYBACK_FIRST_SAVE, FRAME_INTERVAL)
ClosestStateFrame(T) ==
    Sub32(T, emod(Sub32(T, PLAYBACK_FIRST_SAVE), FRAME_INTERVAL))

Max(a, b) == IF a >= b THEN a ELSE b

\* ------------------------------------------------------------------------
\* State buffers and the diff codec
\* ------------------------------------------------------------------------
\* A state buffer is identified by the game it belongs to and the frame the
\* emulated machine was at when it was saved.
Buf(g, f) == [g |-> g, f |-> f]

\* std::vector<u8> iState before processInitialState ran
EmptyBuf == Buf(0, 0)

\* open_vcdiff encoder: the delta of cState against the dictionary iState
Encode(base, target) == [g |-> target.g - base.g, f |-> target.f - base.f]

\* open_vcdiff decoder: applies the delta to the dictionary
Decode(base, delta) == [g |-> base.g + delta.g, f |-> base.f + delta.f]

\* ------------------------------------------------------------------------
\* State
\* ------------------------------------------------------------------------
VARIABLES
    \* SlippiPlaybackStatus fields
    shouldJumpBack, shouldJumpForward, inSlippiPlayback, shouldRunThreads,
    isHardFFW, isSoftFFW, lastFFWFrame, currentPlaybackFrame, targetFrameNum,
    latestFrame, prevOCEnable, prevOCFactor,
    iState,            \* the base state buffer
    futureDiffs,       \* frame -> the std::async job encoding that frame
    m_savestateThread, \* joinable()
    m_seekThread,      \* joinable()
    \* file statics and SConfig
    numDiffsProcessing, m_OCEnable, m_OCFactor,
    \* SavestateThread
    savePc, fixedFrameNumber,
    \* SeekThread
    seekPc, paused, closestStateFrame,
    \* the caller of resetPlayback
    resetPc,
    \* the emulated machine (Core) running the replay
    coreState, game, frameIndex, hookPc,
    \* the replay and the configuration
    replayEnd, seekbar, watch, script, started,
    \* positions of the detached loops that startThreads has replaced
    stale,
    \* the last buffer handed to State::LoadFromBuffer, the frame it was
    \* loaded for and the number of loads so far
    loaded,
    \* frames the machine advanced while a thread was ready to run
    lag,
    \* argument and result of a function applied on its own
    pureIn, pureOut

fieldVars == <<shouldJumpBack, shouldJumpForward, inSlippiPlayback,
               shouldRunThreads, isHardFFW, isSoftFFW, lastFFWFrame,
               currentPlaybackFrame, targetFrameNum, latestFrame>>

ocVars == <<prevOCEnable, prevOCFactor, m_OCEnable, m_OCFactor>>

storeVars == <<iState, futureDiffs, numDiffsProcessing>>

threadVars == <<m_savestateThread, m_seekThread>>

saveVars == <<savePc, fixedFrameNumber>>

seekVars == <<seekPc, paused, closestStateFrame>>

coreVars == <<coreState, game, frameIndex, hookPc>>

envVars == <<replayEnd, seekbar, started, stale>>

pureVars == <<pureIn, pureOut>>

vars == <<fieldVars, ocVars, storeVars, threadVars, saveVars, seekVars,
          resetPc, coreVars, envVars, watch, script, loaded, lag, pureVars>>

\* no detached loop has been replaced
NoStale == [save |-> <<>>, seek |-> <<>>]

NoLoad == [n |-> 0, key |-> INT_MAX, buf |-> EmptyBuf]

NoArg == <<>>

\* SlippiPlaybackStatus::SlippiPlaybackStatus(), the file statics, and a
\* replay of the given length waiting to be played
Constructed(end, bar, w, scr) ==
    /\ shouldJumpBack = FALSE
    /\ shouldJumpForward = FALSE
    /\ inSlippiPlayback = FALSE
    /\ shouldRunThreads = FALSE
    /\ isHardFFW = FALSE
    /\ isSoftFFW = FALSE
    /\ lastFFWFrame = INT_MIN
    /\ currentPlaybackFrame = INT_MIN
    /\ targetFrameNum = INT_MAX
    /\ latestFrame = GAME_FIRST_FRAME
    /\ m_OCEnable = FALSE
    /\ m_OCFactor = 1
    /\ prevOCEnable = m_OCEnable
    /\ prevOCFactor = m_OCFactor
    /\ iState = EmptyBuf
    /\ futureDiffs = <<>>
    /\ m_savestateThread = FALSE
    /\ m_seekThread = FALSE
    /\ numDiffsProcessing = 0
    /\ savePc = "none"
    /\ fixedFrameNumber = INT_MAX
    /\ seekPc = "none"
    /\ paused = FALSE
    /\ closestStateFrame = INT_MAX
    /\ resetPc = "idle"
    /\ coreState = "run"
    /\ game = 1
    /\ frameIndex = GAME_FIRST_FRAME - 1
    /\ hookPc = "idle"
    /\ replayEnd = end
    /\ seekbar = bar
    /\ watch = w
    /\ script = scr
    /\ started = FALSE
    /\ stale = NoStale
    /\ loaded = NoLoad
    /\ lag = 0

\* ------------------------------------------------------------------------
\* Condition variables: notify_one wakes the thread if it is waiting
\* ------------------------------------------------------------------------
\* condVar.notify_one()
NotifySave(pc) == IF pc = "waiting" THEN "check" ELSE pc

\* cv_waitingForTargetFrame.notify_one()
NotifySeek(pc) == IF pc = "waiting" THEN "woken" ELSE pc

\* cv_processingDiff.notify_one()
NotifyHook(pc) == IF pc = "blocked" THEN "recheck" ELSE pc

\* ------------------------------------------------------------------------
\* startThreads
\* ------------------------------------------------------------------------
\* void SlippiPlaybackStatus::startThreads(), called once when the game starts
StartThreads ==
    /\ UNCHANGED lag
    /\ ~started
    /\ started' = TRUE
    /\ shouldRunThreads' = TRUE
    /\ IF ~m_savestateThread
       THEN m_savestateThread' = TRUE /\ savePc' = "check"
       ELSE UNCHANGED <<m_savestateThread, savePc>>
    /\ IF ~m_seekThread
       THEN m_seekThread' = TRUE /\ seekPc' = "idle"
       ELSE UNCHANGED <<m_seekThread, seekPc>>
    /\ UNCHANGED <<shouldJumpBack, shouldJumpForward, inSlippiPlayback,
                   isHardFFW, isSoftFFW, lastFFWFrame, currentPlaybackFrame,
                   targetFrameNum, latestFrame, ocVars, storeVars,
                   fixedFrameNumber, paused, closestStateFrame, resetPc,
                   coreVars, replayEnd, seekbar, stale, watch, script, loaded,
                   pureVars>>

\* ------------------------------------------------------------------------
\* The emulated machine and the frame hook
\* ------------------------------------------------------------------------
\* while (shouldRunThreads && numDiffsProcessing > 3)
TooManyDiffs == shouldRunThreads /\ numDiffsProcessing > DiffCap

\* inSlippiPlayback && (shouldJumpBack || shouldJumpForward || targetFrameNum != INT_MAX)
shouldSeek ==
    inSlippiPlayback /\ (shouldJumpBack \/ shouldJumpForward \/ targetFrameNum # INT_MAX)

\* a thread of the file is ready to take a step
ThreadReady ==
    \/ savePc \in {"check", "towait", "read", "capture"}
    \/ seekPc \in {"resolve", "plan", "ffw", "towait", "woken", "finish"}
    \/ seekPc = "idle" /\ (shouldSeek \/ ~shouldRunThreads)

\* The machine steps to the next frame of the replay while it runs: the
\* playback frame only goes up, the latest frame is the end of the replay
\* file; then prepareSlippiPlayback is entered and tests its first loop.
EngineAdvance ==
    /\ started
    /\ resetPc = "idle" /\ shouldRunThreads
    /\ ThreadReady => lag < MaxLag
    /\ lag' = IF ThreadReady THEN lag + 1 ELSE 0
    /\ coreState = "run"
    /\ hookPc = "idle"
    /\ frameIndex < replayEnd
    /\ frameIndex' = frameIndex + 1
    /\ currentPlaybackFrame' = Max(currentPlaybackFrame, frameIndex + 1)
    /\ latestFrame' = replayEnd
    /\ hookPc' = IF TooManyDiffs THEN "towait" ELSE "body"
    /\ UNCHANGED <<shouldJumpBack, shouldJumpForward, inSlippiPlayback,
                   shouldRunThreads, isHardFFW, isSoftFFW, lastFFWFrame,
                   targetFrameNum, ocVars, storeVars, threadVars, saveVars,
                   seekVars, resetPc, coreState, game, envVars, watch, script,
                   loaded, pureVars>>

\* The hook's test for a frame on which a state is saved
HookCheckpoint ==
    shouldRunThreads /\ CRem(Add32(currentPlaybackFrame, 122), FRAME_INTERVAL) = 0

\* The hook's test for the target being reached
TargetReached == inSlippiPlayback /\ frameIndex >= targetFrameNum

\* currentPlaybackFrame after the hook
Rewound ==
    IF TargetReached /\ targetFrameNum < currentPlaybackFrame
    THEN targetFrameNum ELSE currentPlaybackFrame

\* void SlippiPlaybackStatus::prepareSlippiPlayback(s32 &frameIndex), one
\* step of it: the hook starts to wait in cv_processingDiff.wait, or, woken,
\* tests the loop condition again, or runs from the end of the loop to its
\* return
Hook ==
    /\ UNCHANGED lag
    /\ hookPc \in {"towait", "recheck", "body"}
    /\ IF hookPc = "towait"
       THEN /\ hookPc' = "blocked"
            /\ UNCHANGED <<savePc, currentPlaybackFrame, seekPc>>
       ELSE IF hookPc = "recheck"
       THEN /\ hookPc' = IF TooManyDiffs THEN "towait" ELSE "body"
            /\ UNCHANGED <<savePc, currentPlaybackFrame, seekPc>>
       ELSE /\ hookPc' = "idle"
            /\ savePc' = IF HookCheckpoint THEN NotifySave(savePc) ELSE savePc
            /\ currentPlaybackFrame' = Rewound
            /\ seekPc' = IF TargetReached THEN NotifySeek(seekPc) ELSE seekPc
    /\ UNCHANGED <<shouldJumpBack, shouldJumpForward, inSlippiPlayback,
                   shouldRunThreads, isHardFFW, isSoftFFW, lastFFWFrame,
                   targetFrameNum, latestFrame, ocVars, storeVars, threadVars,
                   fixedFrameNumber, paused, closestStateFrame, resetPc,
                   coreState, game, frameIndex, envVars, watch, script, loaded,
                   pureVars>>

\* ------------------------------------------------------------------------
\* SavestateThread
\* ------------------------------------------------------------------------
\* (currentPlaybackFrame - PLAYBACK_FIRST_SAVE) % FRAME_INTERVAL != 0
OffInterval ==
    CRem(Sub32(currentPlaybackFrame, PLAYBACK_FIRST_SAVE), FRAME_INTERVAL) # 0

\* the conditions of the outer and of the inner loop
SaveCheck ==
    /\ lag' = 0
    /\ savePc = "check"
    /\ savePc' = IF ~shouldRunThreads THEN "exited"
                 ELSE IF OffInterval THEN "towait" ELSE "read"
    /\ UNCHANGED <<fieldVars, ocVars, storeVars, threadVars, fixedFrameNumber,
                   seekVars, resetPc, coreVars, envVars, watch, script, loaded,
                   pureVars>>

\* condVar.wait(intervalLock): the thread starts to wait
SaveWait ==
    /\ lag' = 0
    /\ savePc = "towait"
    /\ savePc' = "waiting"
    /\ UNCHANGED <<fieldVars, ocVars, storeVars, threadVars, fixedFrameNumber,
                   seekVars, resetPc, coreVars, envVars, watch, script, loaded,
                   pureVars>>

\* if (!shouldRunThreads) break; fixedFrameNumber = currentPlaybackFrame;
\* if (fixedFrameNumber == INT_MAX) continue;
SaveRead ==
    /\ lag' = 0
    /\ savePc = "read"
    /\ IF ~shouldRunThreads
       THEN savePc' = "exited" /\ UNCHANGED fixedFrameNumber
       ELSE /\ fixedFrameNumber' = currentPlaybackFrame
            /\ savePc' = IF currentPlaybackFrame = INT_MAX
                         THEN "check" ELSE "capture"
    /\ UNCHANGED <<fieldVars, ocVars, storeVars, threadVars, seekVars,
                   resetPc, coreVars, envVars, watch, script, loaded, pureVars>>

\* State::SaveToBuffer: the buffer of the machine as it is now
SaveToBuffer == Buf(game, frameIndex)

\* the std::async job as it is created: arguments copied, not yet running
NewJob(base, cur) == [st |-> "queued", base |-> base, cur |-> cur]

\* the base state or the diff of this frame, then the sleep
SaveCapture ==
    /\ lag' = 0
    /\ savePc = "capture"
    /\ savePc' = "check"
    /\ LET isStartFrame == fixedFrameNumber = PLAYBACK_FIRST_SAVE
           hasStateBeenProcessed == fixedFrameNumber \in DOMAIN futureDiffs
       IN  IF ~inSlippiPlayback /\ isStartFrame
           THEN /\ iState' = SaveToBuffer
                /\ inSlippiPlayback' = TRUE
                /\ UNCHANGED futureDiffs
           ELSE IF seekbar /\ ~hasStateBeenProcessed /\ ~isStartFrame
           THEN /\ futureDiffs' = futureDiffs @@
                       (fixedFrameNumber :> NewJob(iState, SaveToBuffer))
                /\ UNCHANGED <<iState, inSlippiPlayback>>
           ELSE UNCHANGED <<iState, inSlippiPlayback, futureDiffs>>
    /\ UNCHANGED <<shouldJumpBack, shouldJumpForward, shouldRunThreads,
                   isHardFFW, isSoftFFW, lastFFWFrame, currentPlaybackFrame,
                   targetFrameNum, latestFrame, ocVars, numDiffsProcessing,
                   threadVars, fixedFrameNumber, seekVars, resetPc, coreVars,
                   envVars, watch, script, loaded, pureVars>>

\* ------------------------------------------------------------------------
\* processDiff, run by std::async
\* ------------------------------------------------------------------------
SetSt(k, st) == [futureDiffs EXCEPT ![k].st = st]

\* numDiffsProcessing += 1; cv_processingDiff.notify_one();
DiffStart ==
    \E k \in DOMAIN futureDiffs :
        /\ UNCHANGED lag
        /\ futureDiffs[k].st = "queued"
        /\ futureDiffs' = SetSt(k, "encoding")
        /\ numDiffsProcessing' = numDiffsProcessing + 1
        /\ hookPc' = NotifyHook(hookPc)
        /\ UNCHANGED <<fieldVars, ocVars, iState, threadVars, saveVars,
                       seekVars, resetPc, coreState, game, frameIndex,
                       envVars, watch, script, loaded, pureVars>>

\* encoder.Encode; numDiffsProcessing -= 1; cv_processingDiff.notify_one();
DiffDone ==
    \E k \in DOMAIN futureDiffs :
        /\ UNCHANGED lag
        /\ futureDiffs[k].st = "encoding"
        /\ futureDiffs' = SetSt(k, "ready")
        /\ numDiffsProcessing' = numDiffsProcessing - 1
        /\ hookPc' = NotifyHook(hookPc)
        /\ UNCHANGED <<fieldVars, ocVars, iState, threadVars, saveVars,
                       seekVars, resetPc, coreState, game, frameIndex,
                       envVars, watch, script, loaded, pureVars>>

\* the std::string the future of frame k holds once the job is done
DiffOf(k) == Encode(futureDiffs[k].base, futureDiffs[k].cur)

\* ------------------------------------------------------------------------
\* SeekThread
\* ------------------------------------------------------------------------
\* the bounds narrowed to the target instead
updateWatchNarrow(w) ==
    IF w.startFrame # GAME_FIRST_FRAME \/ w.endFrame # INT_MAX
    THEN [w EXCEPT !.startFrame = IF targetFrameNum > w.startFrame
                                  THEN targetFrameNum ELSE w.startFrame,
                   !.endFrame = IF targetFrameNum < w.endFrame
                                THEN targetFrameNum ELSE w.endFrame]
    ELSE w

\* void SlippiPlaybackStatus::updateWatchSettingsStartEnd()
updateWatchSettingsStartEnd(w) ==
    IF w.startFrame # GAME_FIRST_FRAME \/ w.endFrame # INT_MAX
    THEN [w EXCEPT !.startFrame = IF targetFrameNum < w.startFrame
                                  THEN targetFrameNum ELSE w.startFrame,
                   !.endFrame = IF targetFrameNum > w.endFrame
                                THEN INT_MAX ELSE w.endFrame]
    ELSE w

\* the loop condition, and a seek begun: the run state is captured and the
\* machine paused (Core::SetState returns once the CPU thread is idle)
SeekBegin ==
    /\ lag' = 0
    /\ seekPc = "idle"
    /\ IF ~shouldRunThreads
       THEN /\ seekPc' = "exited"
            /\ UNCHANGED <<paused, coreState, watch>>
       ELSE /\ shouldSeek
            /\ hookPc = "idle"
            /\ watch' = IF watch.mode = "queue"
                        THEN updateWatchSettingsStartEnd(watch) ELSE watch
            /\ paused' = (coreState = "pause")
            /\ coreState' = "pause"
            /\ seekPc' = "resolve"
    /\ UNCHANGED <<fieldVars, ocVars, storeVars, threadVars, saveVars,
                   closestStateFrame, resetPc, game, frameIndex, hookPc,
                   envVars, script, loaded, pureVars>>

\* the frame asked for: a jump of jumpInterval from the playback frame, or
\* the target as it was set
RequestedFrame ==
    IF shouldJumpBack THEN Sub32(currentPlaybackFrame, jumpInterval)
    ELSE IF shouldJumpForward THEN Add32(currentPlaybackFrame, jumpInterval)
    ELSE targetFrameNum

\* only the lower edge case handled
ClampLowOnly(t) == IF t < PLAYBACK_FIRST_SAVE THEN PLAYBACK_FIRST_SAVE ELSE t

\* Handle edgecases for trying to seek before start or past end of game
ClampTarget(t) ==
    LET lo == IF t < PLAYBACK_FIRST_SAVE THEN PLAYBACK_FIRST_SAVE ELSE t
    IN  IF lo > latestFrame THEN latestFrame ELSE lo

\* the target and the closest state frame are worked out
SeekResolve ==
    /\ lag' = 0
    /\ seekPc = "resolve"
    /\ targetFrameNum' = ClampTarget(RequestedFrame)
    /\ closestStateFrame' = ClosestStateFrame(targetFrameNum')
    /\ seekPc' = "plan"
    /\ UNCHANGED <<shouldJumpBack, shouldJumpForward, inSlippiPlayback,
                   shouldRunThreads, isHardFFW, isSoftFFW, lastFFWFrame,
                   currentPlaybackFrame, latestFrame, ocVars, storeVars,
                   threadVars, saveVars, paused, resetPc, coreVars, envVars,
                   watch, script, loaded, pureVars>>

RECURSIVE WalkDown(_, _)
\* while (closestActualStateFrame > floor && futureDiffs.count(...) == 0)
\*     closestActualStateFrame -= FRAME_INTERVAL;
WalkDown(k, floor) ==
    IF k > floor /\ k \notin DOMAIN futureDiffs
    THEN WalkDown(k - FRAME_INTERVAL, floor) ELSE k

isLoadingStateOptimal ==
    targetFrameNum <= currentPlaybackFrame \/ closestStateFrame > currentPlaybackFrame

NoPlan == [kind |-> "none", key |-> INT_MAX]

\* the search of a backward seek used for every seek
LoadPlanNoFloor ==
    IF ~isLoadingStateOptimal THEN NoPlan
    ELSE IF closestStateFrame <= PLAYBACK_FIRST_SAVE
    THEN [kind |-> "base", key |-> PLAYBACK_FIRST_SAVE]
    ELSE IF closestStateFrame \in DOMAIN futureDiffs
    THEN [kind |-> "state", key |-> closestStateFrame]
    ELSE [kind |-> "state",
          key |-> WalkDown(closestStateFrame - FRAME_INTERVAL, PLAYBACK_FIRST_SAVE)]

\* which state the seek loads: the base buffer directly, loadState(key), or none
LoadPlan ==
    IF ~isLoadingStateOptimal THEN NoPlan
    ELSE IF closestStateFrame <= PLAYBACK_FIRST_SAVE
    THEN [kind |-> "base", key |-> PLAYBACK_FIRST_SAVE]
    ELSE IF closestStateFrame \in DOMAIN futureDiffs
    THEN [kind |-> "state", key |-> closestStateFrame]
    ELSE IF targetFrameNum < currentPlaybackFrame
    THEN [kind |-> "state",
          key |-> WalkDown(closestStateFrame - FRAME_INTERVAL, PLAYBACK_FIRST_SAVE)]
    ELSE IF targetFrameNum > currentPlaybackFrame
    THEN LET k == WalkDown(closestStateFrame - FRAME_INTERVAL, currentPlaybackFrame)
         IN  IF k > currentPlaybackFrame THEN [kind |-> "state", key |-> k]
             ELSE NoPlan
    ELSE NoPlan

\* futureDiffs[k].get() returns once the job is done
CanLoad(k) ==
    \/ k = PLAYBACK_FIRST_SAVE
    \/ k \in DOMAIN futureDiffs /\ futureDiffs[k].st = "ready"

\* the diff applied to an empty buffer in place of the base state
LoadedWrongBase(k) ==
    IF k = PLAYBACK_FIRST_SAVE THEN iState ELSE Decode(EmptyBuf, DiffOf(k))

\* void SlippiPlaybackStatus::loadState(s32 closestStateFrame): the buffer
\* handed to State::LoadFromBuffer
LoadedBuffer(k) ==
    IF k = PLAYBACK_FIRST_SAVE THEN iState ELSE Decode(iState, DiffOf(k))

\* the future of frame k gives its string up when it is read
GetOnce(k) == SetSt(k, "taken")

\* futureDiffs after futureDiffs[k].get(): the future keeps its string and
\* can be read again
AfterGet(k) == futureDiffs

\* the state to load is chosen and loaded into the paused machine
SeekPlan ==
    /\ lag' = 0
    /\ seekPc = "plan"
    /\ seekPc' = "ffw"
    /\ LET plan == LoadPlan
       IN  IF plan.kind = "none"
           THEN UNCHANGED <<game, frameIndex, loaded>>
           ELSE /\ plan.kind = "state" => CanLoad(plan.key)
                /\ LET buf == IF plan.kind = "base" THEN iState
                              ELSE LoadedBuffer(plan.key)
                   IN  /\ game' = buf.g
                       /\ frameIndex' = buf.f
                       /\ loaded' = [n |-> loaded.n + 1, key |-> plan.key, buf |-> buf]
    /\ futureDiffs' = IF LoadPlan.kind = "state" /\ LoadPlan.key # PLAYBACK_FIRST_SAVE
                      THEN AfterGet(LoadPlan.key) ELSE futureDiffs
    /\ UNCHANGED <<fieldVars, ocVars, iState, numDiffsProcessing, threadVars, saveVars,
                   paused, closestStateFrame, resetPc, coreState, hookPc,
                   envVars, watch, script, pureVars>>

\* line 287: fast forward is needed unless the state loaded is the target
NeedsFFW == targetFrameNum # closestStateFrame /\ targetFrameNum # latestFrame

\* setHardFFW(true); Core::SetState(Core::CORE_RUN); or straight to the end
SeekFFW ==
    /\ lag' = 0
    /\ seekPc = "ffw"
    /\ IF NeedsFFW
       THEN /\ isHardFFW' = TRUE
            /\ m_OCEnable' = TRUE
            /\ m_OCFactor' = 4
            /\ coreState' = "run"
            /\ seekPc' = "towait"
       ELSE /\ seekPc' = "finish"
            /\ UNCHANGED <<isHardFFW, m_OCEnable, m_OCFactor, coreState>>
    /\ UNCHANGED <<shouldJumpBack, shouldJumpForward, inSlippiPlayback,
                   shouldRunThreads, isSoftFFW, lastFFWFrame,
                   currentPlaybackFrame, targetFrameNum, latestFrame,
                   prevOCEnable, prevOCFactor, storeVars, threadVars,
                   saveVars, paused, closestStateFrame, resetPc, game,
                   frameIndex, hookPc, envVars, watch, script, loaded,
                   pureVars>>

\* cv_waitingForTargetFrame.wait(seekLock): the thread starts to wait
SeekWait ==
    /\ lag' = 0
    /\ seekPc = "towait"
    /\ seekPc' = "waiting"
    /\ UNCHANGED <<fieldVars, ocVars, storeVars, threadVars, saveVars,
                   paused, closestStateFrame, resetPc, coreVars, envVars,
                   watch, script, loaded, pureVars>>

\* cv_waitingForTargetFrame.wait(seekLock) is called once, outside any loop
\* on a condition: a wait on a std::condition_variable may return without a
\* notify, and then the thread goes on as if the hook had woken it
SeekSpurious ==
    /\ lag' = 0
    /\ seekPc = "waiting"
    /\ seekPc' = "woken"
    /\ UNCHANGED <<fieldVars, ocVars, storeVars, threadVars, saveVars,
                   paused, closestStateFrame, resetPc, coreVars, envVars,
                   watch, script, loaded, pureVars>>

\* Core::SetState(Core::CORE_PAUSE); setHardFFW(false);
SeekWoken ==
    /\ lag' = 0
    /\ seekPc = "woken"
    /\ hookPc = "idle"
    /\ coreState' = "pause"
    /\ isHardFFW' = FALSE
    /\ m_OCFactor' = prevOCFactor
    /\ m_OCEnable' = prevOCEnable
    /\ seekPc' = "finish"
    /\ UNCHANGED <<shouldJumpBack, shouldJumpForward, inSlippiPlayback,
                   shouldRunThreads, isSoftFFW, lastFFWFrame,
                   currentPlaybackFrame, targetFrameNum, latestFrame,
                   prevOCEnable, prevOCFactor, storeVars, threadVars,
                   saveVars, paused, closestStateFrame, resetPc, game,
                   frameIndex, hookPc, envVars, watch, script, loaded,
                   pureVars>>

\* the machine left paused whatever it was before
FinishKeepPaused == "pause"

\* if (!paused) Core::SetState(Core::CORE_RUN)
FinishCoreState == IF ~paused THEN "run" ELSE coreState

\* the run state is restored and the request cleared, then the sleep
SeekFinish ==
    /\ lag' = 0
    /\ seekPc = "finish"
    /\ coreState' = FinishCoreState
    /\ shouldJumpBack' = FALSE
    /\ shouldJumpForward' = FALSE
    /\ targetFrameNum' = INT_MAX
    /\ seekPc' = "idle"
    /\ UNCHANGED <<inSlippiPlayback, shouldRunThreads, isHardFFW, isSoftFFW,
                   lastFFWFrame, currentPlaybackFrame, latestFrame, ocVars,
                   storeVars, threadVars, saveVars, paused, closestStateFrame,
                   resetPc, game, frameIndex, hookPc, envVars, watch, script,
                   loaded, pureVars>>

\* ------------------------------------------------------------------------
\* The user interface: jumps, seeks, pause, and the end of the game
\* ------------------------------------------------------------------------
\* a gesture of the script is due when the machine is at its frame
Due(g, kind) == g \in script /\ g.kind = kind /\ g.at = frameIndex /\ started

RequestJumpBack ==
    \E g \in script :
        /\ UNCHANGED lag
        /\ Due(g, "back")
        /\ script' = script \ {g}
        /\ shouldJumpBack' = TRUE
        /\ UNCHANGED <<shouldJumpForward, inSlippiPlayback, shouldRunThreads,
                       isHardFFW, isSoftFFW, lastFFWFrame,
                       currentPlaybackFrame, targetFrameNum, latestFrame,
                       ocVars, storeVars, threadVars, saveVars, seekVars,
                       resetPc, coreVars, envVars, watch, loaded, pureVars>>

RequestJumpForward ==
    \E g \in script :
        /\ UNCHANGED lag
        /\ Due(g, "forward")
        /\ script' = script \ {g}
        /\ shouldJumpForward' = TRUE
        /\ UNCHANGED <<shouldJumpBack, inSlippiPlayback, shouldRunThreads,
                       isHardFFW, isSoftFFW, lastFFWFrame,
                       currentPlaybackFrame, targetFrameNum, latestFrame,
                       ocVars, storeVars, threadVars, saveVars, seekVars,
                       resetPc, coreVars, envVars, watch, loaded, pureVars>>

RequestSeekTo ==
    \E g \in script :
        /\ UNCHANGED lag
        /\ Due(g, "seek")
        /\ script' = script \ {g}
        /\ targetFrameNum' = g.to
        /\ UNCHANGED <<shouldJumpBack, shouldJumpForward, inSlippiPlayback,
                       shouldRunThreads, isHardFFW, isSoftFFW, lastFFWFrame,
                       currentPlaybackFrame, latestFrame, ocVars, storeVars,
                       threadVars, saveVars, seekVars, resetPc, coreVars,
                       envVars, watch, loaded, pureVars>>

\* the user pauses the emulation
UserPause ==
    \E g \in script :
        /\ UNCHANGED lag
        /\ Due(g, "pause")
        /\ hookPc = "idle"
        /\ script' = script \ {g}
        /\ coreState' = "pause"
        /\ UNCHANGED <<fieldVars, ocVars, storeVars, threadVars, saveVars,
                       seekVars, resetPc, game, frameIndex, hookPc, envVars,
                       watch, loaded, pureVars>>

\* ------------------------------------------------------------------------
\* resetPlayback
\* ------------------------------------------------------------------------
\* targetFrameNum = INT_MAX
ResetTarget == INT_MAX

\* the statements after the if block
ResetFields ==
    /\ shouldJumpBack' = FALSE
    /\ shouldJumpForward' = FALSE
    /\ isHardFFW' = FALSE
    /\ isSoftFFW' = FALSE
    /\ targetFrameNum' = ResetTarget
    /\ inSlippiPlayback' = FALSE

\* resetPlayback up to futureDiffs.clear(), or all of it when the threads
\* do not run
ResetBegin ==
    \E g \in script :
        /\ UNCHANGED lag
        /\ Due(g, "reset")
        /\ resetPc = "idle"
        /\ script' = script \ {g}
        /\ IF shouldRunThreads
           THEN /\ shouldRunThreads' = FALSE
                /\ m_savestateThread' = FALSE
                /\ m_seekThread' = FALSE
                /\ savePc' = NotifySave(savePc)
                /\ resetPc' = "clear"
                /\ UNCHANGED <<shouldJumpBack, shouldJumpForward, isHardFFW,
                               isSoftFFW, targetFrameNum, inSlippiPlayback>>
           ELSE /\ ResetFields
                /\ UNCHANGED <<shouldRunThreads, threadVars, savePc, resetPc>>
        /\ UNCHANGED <<lastFFWFrame, currentPlaybackFrame, latestFrame,
                       ocVars, storeVars, fixedFrameNumber, seekVars,
                       coreVars, envVars, watch, loaded, pureVars>>

\* futureDiffs.clear() returns once every job in it is done (the futures of
\* std::async block in their destructor); then the rest of resetPlayback
ResetFinish ==
    /\ UNCHANGED lag
    /\ resetPc = "clear"
    /\ \A k \in DOMAIN futureDiffs : futureDiffs[k].st = "ready"
    /\ futureDiffs' = <<>>
    /\ ResetFields
    /\ resetPc' = "idle"
    /\ UNCHANGED <<shouldRunThreads, lastFFWFrame, currentPlaybackFrame,
                   latestFrame, ocVars, iState, numDiffsProcessing,
                   threadVars, saveVars, seekVars, coreVars, envVars, watch,
                   script, loaded, pureVars>>

\* ------------------------------------------------------------------------
\* Specifications
\* ------------------------------------------------------------------------
Gesture(at, kind, to) == [at |-> at, kind |-> kind, to |-> to]

NoWatch == [mode |-> "mirror", startFrame |-> GAME_FIRST_FRAME, endFrame |-> INT_MAX]

Next ==
    \/ StartThreads
    \/ EngineAdvance
    \/ Hook
    \/ SaveCheck
    \/ SaveWait
    \/ SaveRead
    \/ SaveCapture
    \/ DiffStart
    \/ DiffDone
    \/ SeekBegin
    \/ SeekResolve
    \/ SeekPlan
    \/ SeekFFW
    \/ SeekWait
    \/ SeekSpurious
    \/ SeekWoken
    \/ SeekFinish
    \/ RequestJumpBack
    \/ RequestJumpForward
    \/ RequestSeekTo
    \/ UserPause
    \/ ResetBegin
    \/ ResetFinish

Replay(end, bar, scr) == [end |-> end, bar |-> bar, watch |-> NoWatch, script |-> scr]

\* a short replay, one that passes the first diff, and a long one
ShortEnd == GAME_FIRST_FRAME + 23

DiffEnd == PLAYBACK_FIRST_SAVE + FRAME_INTERVAL + 12

\* a replay that ends on its second save
BoundaryEnd == PLAYBACK_FIRST_SAVE + FRAME_INTERVAL

LongEnd == 2100

MidEnd == 400

\* the replays played and what the user does while they play
Replays ==
    { Replay(ShortEnd, FALSE, {Gesture(-105, "back", 0)}),
      Replay(ShortEnd, FALSE, {Gesture(-115, "forward", 0)}),
      Replay(ShortEnd, FALSE, {Gesture(-105, "seek", -110)}),
      Replay(ShortEnd, TRUE, {Gesture(-105, "pause", 0), Gesture(-105, "seek", -110)}),
      Replay(ShortEnd, FALSE, {Gesture(-115, "seek", -104), Gesture(-110, "reset", 0),
                               Gesture(-110, "reset", 1)}),
      Replay(DiffEnd, TRUE, {Gesture(785, "seek", 778)}),
      Replay(BoundaryEnd, TRUE, {Gesture(778, "seek", 778)}),
      Replay(BoundaryEnd, TRUE, {Gesture(BoundaryEnd, "reset", 0)}),
      Replay(DiffEnd, TRUE, {Gesture(785, "seek", 778), Gesture(785, "reset", 0)}),
      Replay(MidEnd, FALSE, {Gesture(100, "back", 0), Gesture(150, "forward", 0)}),
      Replay(LongEnd, FALSE, {Gesture(2050, "seek", 2000)}),
      Replay(LongEnd, FALSE, {Gesture(2000, "seek", 2000)}),
      Replay(LongEnd, FALSE, {Gesture(2001, "seek", 2000)}),
      Replay(LongEnd, FALSE, {Gesture(500, "seek", 2000)}) }

Init ==
    /\ \E r \in Replays : Constructed(r.end, r.bar, r.watch, r.script)
    /\ pureIn = NoArg
    /\ pureOut = NoArg

Spec == Init /\ [][Next]_vars

\* the replay of SpecDiffs: seek bar on, no user input, played past the frame
\* of the second diff
DiffsEnd == PLAYBACK_FIRST_SAVE + 2 * FRAME_INTERVAL + 2

InitDiffs ==
    /\ Constructed(DiffsEnd, TRUE, NoWatch, {})
    /\ pureIn = NoArg
    /\ pureOut = NoArg

\* the program while no user input arrives: the seek thread stays idle
NextDiffs ==
    \/ StartThreads
    \/ EngineAdvance
    \/ Hook
    \/ SaveCheck
    \/ SaveWait
    \/ SaveRead
    \/ SaveCapture
    \/ DiffStart
    \/ DiffDone

SpecDiffs == InitDiffs /\ [][NextDiffs]_vars

\* ------------------------------------------------------------------------
\* The functions applied on their own
\* ------------------------------------------------------------------------
\* dividends and divisors of emod, the ends of the s32 range among them
EmodDividends ==
    (-30 .. 30) \cup {INT_MIN, INT_MIN + 1, -1800, -901, -900, -899, 899, 900,
                      901, 1800, INT_MAX - 1, INT_MAX}

EmodDivisors == {INT_MIN, -900, -7, -1, 1, 7, 900, INT_MAX}

\* targets a seek resolves to: frames of a replay, and the latest frame of a
\* replay that has not reached the first save
ResolvedTargets ==
    (GAME_FIRST_FRAME .. 30) \cup (770 .. 790) \cup (1670 .. 1690) \cup {2000, 28800}

InitPure ==
    /\ Constructed(ShortEnd, FALSE, NoWatch, {})
    /\ pureOut = NoArg
    /\ \/ \E a \in EmodDividends, b \in EmodDivisors :
              pureIn = [fn |-> "emod", a |-> a, b |-> b]
       \/ \E T \in ResolvedTargets :
              pureIn = [fn |-> "closest", a |-> T, b |-> FRAME_INTERVAL]

PureUnchanged ==
    UNCHANGED <<fieldVars, ocVars, storeVars, threadVars, saveVars, seekVars,
                resetPc, coreVars, envVars, watch, script, loaded, lag, pureIn>>

ApplyEmod ==
    /\ pureOut = NoArg
    /\ pureIn.fn = "emod"
    /\ pureOut' = <<emod(pureIn.a, pureIn.b)>>
    /\ PureUnchanged

ApplyClosest ==
    /\ pureOut = NoArg
    /\ pureIn.fn = "closest"
    /\ pureOut' = <<ClosestStateFrame(pureIn.a)>>
    /\ PureUnchanged

NextPure == ApplyEmod \/ ApplyClosest

SpecPure == InitPure /\ [][NextPure]_vars

\* ------------------------------------------------------------------------
\* Properties
\* ------------------------------------------------------------------------
\* C1: the number of diffs being processed is never negative and never
\* above 3
DiffCounterBounded ==
    0 <= numDiffsProcessing /\ numDiffsProcessing <= DiffCap

\* the frame the seek thread is asked for is inside the replay
InReplay(t) == PLAYBACK_FIRST_SAVE <= t /\ t <= latestFrame

\* C2: the target a seek resolves to is the frame asked for (a jump of 300
\* frames from the playback frame, or the frame sought) clamped into
\* [PLAYBACK_FIRST_SAVE, latestFrame]
ResolveClamps ==
    [][seekPc = "resolve" /\ seekPc' = "plan" =>
          /\ PLAYBACK_FIRST_SAVE <= targetFrameNum'
          /\ targetFrameNum' <= latestFrame
          /\ InReplay(RequestedFrame) => targetFrameNum' = RequestedFrame
          /\ RequestedFrame < PLAYBACK_FIRST_SAVE =>
                 targetFrameNum' = PLAYBACK_FIRST_SAVE
          /\ RequestedFrame > latestFrame => targetFrameNum' = latestFrame]_vars

\* a jump back from frame 100 resolved to the first save
ResolveClampsWitness ==
    /\ seekPc = "plan"
    /\ shouldJumpBack
    /\ currentPlaybackFrame = 100
    /\ targetFrameNum = PLAYBACK_FIRST_SAVE

\* a jump forward past the end of the replay resolved to the latest frame
ResolveClampsForward ==
    /\ seekPc = "plan"
    /\ shouldJumpForward /\ ~shouldJumpBack
    /\ currentPlaybackFrame + jumpInterval > latestFrame
    /\ targetFrameNum = latestFrame

\* a is congruent to r modulo |b|
Congruent(a, r, b) ==
    IF b = INT_MIN
    THEN r = (IF a >= 0 THEN a ELSE (a + INT_MAX) + 1)
    ELSE a % Abs32(b) = r % Abs32(b)

PlanStep == seekPc = "plan" /\ seekPc' = "ffw"

\* the seek thread ends a seek
FinishStep == seekPc = "finish" /\ seekPc' = "idle"

\* a seek to frame 2000 while futureDiffs holds no diff
SeekTo2000 == targetFrameNum = 2000 /\ futureDiffs = <<>>

\* the base state is loaded in this step
BaseLoaded ==
    /\ loaded' = [n |-> loaded.n + 1, key |-> PLAYBACK_FIRST_SAVE, buf |-> iState]
    /\ frameIndex' = iState.f
    /\ game' = iState.g

\* hard fast forward drives the machine while the seek thread waits, the
\* wait ends at frame 2000 or later, and the end of the seek leaves no fast
\* forward and the run state the seek began with
DrivenTo2000 ==
    /\ [](SeekTo2000 /\ seekPc \in {"towait", "waiting"} =>
              isHardFFW /\ coreState = "run")
    /\ [](SeekTo2000 /\ seekPc = "woken" => frameIndex >= 2000)
    /\ [][FinishStep /\ SeekTo2000 =>
              /\ ~isHardFFW' /\ ~isSoftFFW'
              /\ coreState' = (IF paused THEN "pause" ELSE "run")]_vars

\* C4: a seek to frame 2000 with no diff in the store, asked for when the
\* playback frame is beyond 2000 and the replay goes on after 2000, loads
\* the base state, is driven to frame 2000 by hard fast forward and ends
\* with no fast forward and the run state restored; asked for at or before
\* frame 2000 it loads nothing
SeekTo2000Backward ==
    /\ [][PlanStep /\ SeekTo2000 =>
              IF targetFrameNum < currentPlaybackFrame
              THEN BaseLoaded /\ (latestFrame # 2000 => NeedsFFW)
              ELSE UNCHANGED <<loaded, frameIndex, game>>]_vars
    /\ DrivenTo2000

\* the seek in hand, once resolved, is to a boundary above the first that
\* has a finished diff in futureDiffs, from a playback frame not before it
BoundarySeek ==
    /\ seekPc \in {"plan", "ffw", "towait", "waiting", "woken", "finish"}
    /\ targetFrameNum = closestStateFrame
    /\ targetFrameNum > PLAYBACK_FIRST_SAVE
    /\ targetFrameNum \in DOMAIN futureDiffs
    /\ futureDiffs[targetFrameNum].st = "ready"
    /\ targetFrameNum <= currentPlaybackFrame

\* C5: a backward seek to a boundary above the first with a finished diff
\* loads the base state with that diff applied, ends with the playback
\* frame at that boundary, and never turns hard fast forward on
BoundarySeekLands ==
    /\ [][PlanStep /\ BoundarySeek =>
              loaded' = [n |-> loaded.n + 1, key |-> targetFrameNum,
                         buf |-> Decode(iState, DiffOf(targetFrameNum))]]_vars
    /\ [][FinishStep /\ BoundarySeek =>
              currentPlaybackFrame' = targetFrameNum]_vars
    /\ [](BoundarySeek => ~isHardFFW)

\* C7: the buffer loadState hands to the machine for a frame with a diff in
\* futureDiffs is the buffer that was captured for that frame
RoundTrip ==
    loaded.n > 0 /\ loaded.key \in DOMAIN futureDiffs =>
        loaded.buf = futureDiffs[loaded.key].cur

\* a state rebuilt from a diff has been loaded, and it is not the base
RoundTripWitness ==
    /\ loaded.n > 0
    /\ loaded.key \in DOMAIN futureDiffs
    /\ loaded.key > PLAYBACK_FIRST_SAVE
    /\ loaded.buf # iState
    /\ loaded.buf # EmptyBuf

\* prepareSlippiPlayback returns
HookReturns == hookPc = "body" /\ hookPc' = "idle"

\* C8: when the hook returns during a replay with a seek in hand, the
\* playback frame is not beyond the target
HookHoldsTarget ==
    [][HookReturns /\ inSlippiPlayback' /\ targetFrameNum' # INT_MAX =>
           currentPlaybackFrame' <= targetFrameNum']_vars

\* the seek thread takes up a request
BeginStep == seekPc = "idle" /\ seekPc' = "resolve"

\* C9: the end of a seek leaves the machine paused if it was paused when the
\* seek began and running if it ran, no jump asked for and no target
SeekFinishRestores ==
    /\ [][BeginStep => paused' = (coreState = "pause")]_vars
    /\ [][FinishStep =>
              /\ coreState' = (IF paused THEN "pause" ELSE "run")
              /\ ~shouldJumpBack' /\ ~shouldJumpForward'
              /\ targetFrameNum' = INT_MAX]_vars

\* a seek begun on a paused machine has ended after loading a state
SeekFinishPaused ==
    /\ seekPc = "idle"
    /\ loaded.n > 0
    /\ paused
    /\ coreState = "pause"
    /\ targetFrameNum = INT_MAX
    /\ ~shouldJumpBack /\ ~shouldJumpForward

\* a seek begun on a running machine has ended after fast forward
SeekFinishRunning ==
    /\ seekPc = "idle"
    /\ loaded.n > 0
    /\ ~paused
    /\ coreState = "run"
    /\ targetFrameNum = INT_MAX
    /\ frameIndex > loaded.buf.f

\* resetPlayback returns
ResetReturns ==
    /\ resetPc' = "idle"
    /\ \/ resetPc = "clear"
       \/ \E g \in script \ script' : g.kind = "reset"

\* C6: resetPlayback leaves every field of the playback state at the value
\* the constructor gives it, and a second call changes none of them
ResetRestoresConstructed ==
    [][ResetReturns =>
           /\ currentPlaybackFrame' = INT_MIN
           /\ targetFrameNum' = INT_MAX
           /\ latestFrame' = GAME_FIRST_FRAME
           /\ ~shouldJumpBack' /\ ~shouldJumpForward'
           /\ ~isHardFFW' /\ ~isSoftFFW'
           /\ lastFFWFrame' = INT_MIN
           /\ ~inSlippiPlayback'
           /\ ~shouldRunThreads'
           /\ (resetPc = "idle" /\ ~shouldRunThreads => UNCHANGED fieldVars)]_vars

\* ------------------------------------------------------------------------
\* Short replays under fair scheduling: every thread that can take a step
\* takes it in the end, and so do the machine, the jobs and resetPlayback
\* ------------------------------------------------------------------------
InitFair ==
    /\ \E r \in {q \in Replays : q.end = ShortEnd} :
           Constructed(r.end, r.bar, r.watch, r.script)
    /\ pureIn = NoArg
    /\ pureOut = NoArg

SavestateStep == SaveCheck \/ SaveWait \/ SaveRead \/ SaveCapture

SeekStep ==
    \/ SeekBegin \/ SeekResolve \/ SeekPlan \/ SeekFFW
    \/ SeekWait \/ SeekWoken \/ SeekFinish

FairSpec ==
    /\ InitFair
    /\ [][Next]_vars
    /\ WF_vars(StartThreads)
    /\ WF_vars(EngineAdvance)
    /\ WF_vars(Hook)
    /\ WF_vars(SavestateStep)
    /\ WF_vars(SeekStep)
    /\ WF_vars(DiffStart)
    /\ WF_vars(DiffDone)
    /\ WF_vars(ResetBegin)
    /\ WF_vars(ResetFinish)

\* C10: once resetPlayback has cleared shouldRunThreads and notified, the
\* savestate thread and the seek thread both leave their loops
ThreadsExit ==
    [](started /\ ~shouldRunThreads =>
           <>(savePc = "exited" /\ seekPc = "exited"))

\* C11: whenever hard fast forward is off the overclock setting is the one
\* saved by the constructor, also when resetPlayback turned it off
OverclockOnlyWhileHard ==
    ~isHardFFW => m_OCEnable = prevOCEnable /\ m_OCFactor = prevOCFactor

\* ------------------------------------------------------------------------
\* shouldFFWFrame, called for frames of a replay while the playback code
\* outside this file turns the fast forward modes on and off and records
\* the last frame it fast forwarded
\* ------------------------------------------------------------------------
FFWFrames == {GAME_FIRST_FRAME, -1, 0, 14, 15, 100, 2000}

FFWLastFrames == {INT_MIN, GAME_FIRST_FRAME, 0, 85, 86, 1990}

SoftFFWGap == 15

InitFFW ==
    /\ Constructed(ShortEnd, FALSE, NoWatch, {})
    /\ pureOut = NoArg
    /\ \E f \in FFWFrames : pureIn = [fn |-> "ffw", a |-> f, b |-> SoftFFWGap]

FFWUnchanged ==
    UNCHANGED <<shouldJumpBack, shouldJumpForward, inSlippiPlayback,
                shouldRunThreads, currentPlaybackFrame, targetFrameNum,
                latestFrame, ocVars, storeVars, threadVars, saveVars, seekVars,
                resetPc, coreVars, envVars, watch, script, loaded, lag, pureIn>>

\* the playback code turns soft fast forward on or off
SetSoftFFW ==
    /\ pureOut = NoArg
    /\ isSoftFFW' = ~isSoftFFW
    /\ UNCHANGED <<isHardFFW, lastFFWFrame, pureOut>>
    /\ FFWUnchanged

\* isHardFFW as setHardFFW writes it
SetHardFFW ==
    /\ pureOut = NoArg
    /\ isHardFFW' = ~isHardFFW
    /\ UNCHANGED <<isSoftFFW, lastFFWFrame, pureOut>>
    /\ FFWUnchanged

\* the playback code records the frame it fast forwarded last
RecordFFWFrame ==
    /\ pureOut = NoArg
    /\ \E l \in FFWLastFrames : l <= pureIn.a /\ lastFFWFrame' = l
    /\ UNCHANGED <<isHardFFW, isSoftFFW, pureOut>>
    /\ FFWUnchanged

\* a - b is outside the range of s32
SubOverflows(a, b) ==
    \/ b < 0 /\ a > INT_MAX + b
    \/ b > 0 /\ a < INT_MIN + b

\* bool SlippiPlaybackStatus::shouldFFWFrame(int32_t frameIndex) const: the
\* values it can return; frameIndex - lastFFWFrame is a signed subtraction,
\* undefined when it overflows
shouldFFWFrame(f) ==
    IF ~isSoftFFW /\ ~isHardFFW THEN {FALSE}
    ELSE IF isHardFFW THEN {TRUE}
    ELSE IF SubOverflows(f, lastFFWFrame) THEN BOOLEAN
    ELSE {f - lastFFWFrame >= SoftFFWGap}

ApplyShouldFFW ==
    /\ pureOut = NoArg
    /\ pureIn.fn = "ffw"
    /\ \E r \in shouldFFWFrame(pureIn.a) : pureOut' = <<r>>
    /\ UNCHANGED <<isHardFFW, isSoftFFW, lastFFWFrame>>
    /\ FFWUnchanged

NextFFW == SetSoftFFW \/ SetHardFFW \/ RecordFFWFrame \/ ApplyShouldFFW

SpecFFW == InitFFW /\ [][NextFFW]_vars

\* C12: shouldFFWFrame returns false with no fast forward, true with hard
\* fast forward, and with soft fast forward alone true exactly when the
\* frame is 15 or more past lastFFWFrame (frameIndex - lastFFWFrame >= 15,
\* written without the subtraction); it changes no state
ShouldFFWAsModes ==
    pureOut # NoArg /\ pureIn.fn = "ffw" =>
        pureOut[1] = (IF ~isSoftFFW /\ ~isHardFFW THEN FALSE
                      ELSE IF isHardFFW THEN TRUE
                      ELSE pureIn.a >= lastFFWFrame + 15)

\* ------------------------------------------------------------------------
\* Sessions: startThreads called again after resetPlayback, for the next
\* game. The loops resetPlayback detached are followed from then on only as
\* to whether they have left their loop.
\* ------------------------------------------------------------------------
MaxRestarts == 1

Live(pc) == pc \notin {"none", "exited"}

\* the loop of a replaced thread is kept while it has not exited
Replaced(olds, pc) == IF Live(pc) THEN Append(olds, pc) ELSE olds

\* void SlippiPlaybackStatus::startThreads(), second and later calls, at the
\* start of the next game
RestartThreads ==
    /\ started
    /\ resetPc = "idle"
    /\ hookPc = "idle"
    /\ ~shouldRunThreads
    /\ Len(stale.save) < MaxRestarts /\ Len(stale.seek) < MaxRestarts
    /\ shouldRunThreads' = TRUE
    /\ IF ~m_savestateThread
       THEN /\ m_savestateThread' = TRUE
            /\ savePc' = "check"
       ELSE UNCHANGED <<m_savestateThread, savePc>>
    /\ IF ~m_seekThread
       THEN /\ m_seekThread' = TRUE
            /\ seekPc' = "idle"
       ELSE UNCHANGED <<m_seekThread, seekPc>>
    /\ stale' = [save |-> IF ~m_savestateThread
                          THEN Replaced(stale.save, savePc) ELSE stale.save,
                 seek |-> IF ~m_seekThread
                          THEN Replaced(stale.seek, seekPc) ELSE stale.seek]
    /\ frameIndex' = GAME_FIRST_FRAME - 1
    /\ lag' = 0
    /\ UNCHANGED <<shouldJumpBack, shouldJumpForward, inSlippiPlayback,
                   isHardFFW, isSoftFFW, lastFFWFrame, currentPlaybackFrame,
                   targetFrameNum, latestFrame, ocVars, storeVars,
                   fixedFrameNumber, paused, closestStateFrame, resetPc,
                   coreState, game, hookPc, replayEnd, seekbar, started, watch,
                   script, loaded, pureVars>>

\* a replaced loop that is not inside a wait comes to its loop test, line
\* 172 or 215, while shouldRunThreads is false, and exits
StaleExits(olds) ==
    { [olds EXCEPT ![i] = "exited"] :
          i \in {j \in DOMAIN olds : Live(olds[j]) /\ olds[j] # "waiting"} }

StaleExit ==
    /\ ~shouldRunThreads
    /\ \/ \E o \in StaleExits(stale.save) : stale' = [stale EXCEPT !.save = o]
       \/ \E o \in StaleExits(stale.seek) : stale' = [stale EXCEPT !.seek = o]
    /\ UNCHANGED <<fieldVars, ocVars, storeVars, threadVars, saveVars,
                   seekVars, resetPc, coreVars, replayEnd, seekbar, started,
                   watch, script, loaded, lag, pureVars>>

\* resetPlayback called while the seek thread is in the middle of a seek
ResetInSeek ==
    Replay(ShortEnd, FALSE, {Gesture(-115, "seek", -104), Gesture(-115, "reset", 0)})

\* resetPlayback called at the frame of the base state
ResetAtBase ==
    Replay(ShortEnd, FALSE, {Gesture(PLAYBACK_FIRST_SAVE, "reset", 0)})

InitSessions ==
    \/ InitFair
    \/ /\ \E r \in {ResetInSeek, ResetAtBase} :
              Constructed(r.end, r.bar, r.watch, r.script)
       /\ pureIn = NoArg
       /\ pureOut = NoArg

NextSessions == Next \/ RestartThreads \/ StaleExit

SpecSessions == InitSessions /\ [][NextSessions]_vars

LiveLoops(pc, olds) ==
    Cardinality({i \in DOMAIN olds : Live(olds[i])}) + (IF Live(pc) THEN 1 ELSE 0)

\* C13: at most one savestate loop and at most one seek loop have not
\* exited, and no loop that resetPlayback detached is still in its loop
\* while a later session runs
OneLoopEach ==
    /\ LiveLoops(savePc, stale.save) <= 1
    /\ LiveLoops(seekPc, stale.seek) <= 1

\* a frame on which a state is saved
OnBoundary(F) == emod(F - PLAYBACK_FIRST_SAVE, FRAME_INTERVAL) = 0

\* C14: every key of futureDiffs is a boundary frame above the first save
KeysOnBoundaries ==
    \A F \in DOMAIN futureDiffs : F > PLAYBACK_FIRST_SAVE /\ OnBoundary(F)

\* C15: the state saved for a frame is the state of the machine at that
\* frame, the base state that of the first save frame
SavedAtItsFrame ==
    /\ inSlippiPlayback => iState.f = PLAYBACK_FIRST_SAVE
    /\ \A F \in DOMAIN futureDiffs : futureDiffs[F].cur.f = F

\* the savestate thread is about to insert into futureDiffs (line 200)
SaveInserting ==
    /\ savePc = "capture"
    /\ seekbar
    /\ fixedFrameNumber # PLAYBACK_FIRST_SAVE
    /\ fixedFrameNumber \notin DOMAIN futureDiffs

\* the seek thread is about to look a frame up in futureDiffs (lines 260-281)
SeekReading ==
    /\ seekPc = "plan"
    /\ isLoadingStateOptimal
    /\ closestStateFrame > PLAYBACK_FIRST_SAVE

\* resetPlayback is in futureDiffs.clear() (line 147)
StoreClearing == resetPc = "clear"

\* C16: the seek thread never looks into futureDiffs while the savestate
\* thread inserts into it or resetPlayback clears it: the two are never at
\* these statements together
NoStoreRace == ~(SeekReading /\ (SaveInserting \/ StoreClearing))

\* ------------------------------------------------------------------------
\* The choice of the state to load, from every position a seek can start
\* at: the seek thread has paused the machine of a replay that has its base
\* state, with finished diffs for some of the boundaries the machine has
\* passed, and is about to resolve its target
\* ------------------------------------------------------------------------
PlanEnd == PLAYBACK_FIRST_SAVE + 3 * FRAME_INTERVAL + 100

Boundary(n) == PLAYBACK_FIRST_SAVE + n * FRAME_INTERVAL

PlanFrames ==
    {PLAYBACK_FIRST_SAVE, -100, Boundary(1) - 1, Boundary(1), Boundary(1) + 1,
     1000, Boundary(2) - 1, Boundary(2), Boundary(2) + 1, 2000,
     Boundary(3), Boundary(3) + 50, PlanEnd}

PlanTargets == PlanFrames \cup {INT_MIN, GAME_FIRST_FRAME, PlanEnd + 1}

\* the diff of boundary n, finished, encoded against the base state
ReadyJob(n) ==
    [st |-> "ready", base |-> Buf(1, PLAYBACK_FIRST_SAVE), cur |-> Buf(1, Boundary(n))]

\* finished diffs for the boundaries of ns
StoreOf(ns) == [F \in {Boundary(n) : n \in ns} |-> ReadyJob((F - PLAYBACK_FIRST_SAVE) \div FRAME_INTERVAL)]

\* a replay of PlanEnd frames being played: the playback frame cur, the
\* target tgt, finished diffs for the boundaries of ns, the machine at frame
\* at and in run state cst with its hook at hpc, the seek thread at spc
\* having found the machine paused or not (p), and what the user goes on to
\* do (scr)
Playing(cur, tgt, ns, at, p, spc, cst, hpc, scr) ==
    /\ shouldJumpBack = FALSE
    /\ shouldJumpForward = FALSE
    /\ inSlippiPlayback = TRUE
    /\ shouldRunThreads = TRUE
    /\ isHardFFW = FALSE
    /\ isSoftFFW = FALSE
    /\ lastFFWFrame = INT_MIN
    /\ currentPlaybackFrame = cur
    /\ targetFrameNum = tgt
    /\ latestFrame = PlanEnd
    /\ m_OCEnable = FALSE
    /\ m_OCFactor = 1
    /\ prevOCEnable = m_OCEnable
    /\ prevOCFactor = m_OCFactor
    /\ iState = Buf(1, PLAYBACK_FIRST_SAVE)
    /\ futureDiffs = StoreOf(ns)
    /\ m_savestateThread = TRUE
    /\ m_seekThread = TRUE
    /\ numDiffsProcessing = 0
    /\ savePc = "waiting"
    /\ fixedFrameNumber = INT_MAX
    /\ seekPc = spc
    /\ paused = p
    /\ closestStateFrame = INT_MAX
    /\ resetPc = "idle"
    /\ coreState = cst
    /\ game = 1
    /\ frameIndex = at
    /\ hookPc = hpc
    /\ replayEnd = PlanEnd
    /\ seekbar = TRUE
    /\ watch = NoWatch
    /\ script = scr
    /\ started = TRUE
    /\ stale = NoStale
    /\ loaded = NoLoad
    /\ lag = 0
    /\ pureIn = NoArg
    /\ pureOut = NoArg

\* the same with nothing more done by the user
MidReplay(cur, tgt, ns, at, p, spc, cst, hpc) ==
    Playing(cur, tgt, ns, at, p, spc, cst, hpc, {})

InitPlan ==
    \E cur \in PlanFrames, tgt \in PlanTargets, ns \in SUBSET (1 .. 3),
       at \in PlanFrames, p \in BOOLEAN :
        MidReplay(cur, tgt, ns, at, p, "resolve", "pause", "idle")

NextPlan == SeekResolve \/ SeekPlan \/ SeekFFW

SpecPlan == InitPlan /\ [][NextPlan]_vars

\* nothing is loaded in this step
NothingLoaded == UNCHANGED <<loaded, frameIndex, game>>

ForwardSeekSkipped ==
    /\ loaded.n = 0
    /\ seekPc = "towait"
    /\ isHardFFW
    /\ targetFrameNum = 2000
    /\ currentPlaybackFrame = 1000
    /\ DOMAIN futureDiffs = {Boundary(1), Boundary(3)}

\* ------------------------------------------------------------------------
\* A backward seek from the request on: the user has set a target behind
\* the frame the machine is at, whose hook has run or is about to; the seek
\* thread is idle and the machine runs
\* ------------------------------------------------------------------------
InitBack ==
    \E at \in PlanFrames, tgt \in PlanFrames, ns \in SUBSET (1 .. 3),
       hpc \in {"idle", "body"} :
        /\ tgt < at
        /\ \A n \in ns : Boundary(n) <= at
        /\ MidReplay(at, tgt, ns, at, FALSE, "idle", "run", hpc)

NextBack == Hook \/ SeekBegin \/ SeekResolve \/ SeekPlan \/ SeekFFW

SpecBack == InitBack /\ [][NextBack]_vars

\* the highest boundary below F with a diff in futureDiffs, or the first save
StoredBelow(F) ==
    LET below == {G \in DOMAIN futureDiffs : G < F /\ OnBoundary(G)}
    IN  IF below = {} THEN PLAYBACK_FIRST_SAVE
        ELSE CHOOSE G \in below : \A H \in below : H <= G

\* C18: a backward seek whose closest state frame is above the first save
\* and has no diff loads the state of the highest boundary below it that
\* has one, or the base state, whether or not the hook has rewound the
\* playback frame to the target first
BackwardSeekLoadsBelow ==
    [][PlanStep /\ closestStateFrame > PLAYBACK_FIRST_SAVE
                /\ closestStateFrame \notin DOMAIN futureDiffs =>
           /\ loaded'.n = loaded.n + 1
           /\ loaded'.key = StoredBelow(closestStateFrame)
           /\ loaded'.buf = LoadedBuffer(StoredBelow(closestStateFrame))]_vars

\* the seek thread's wait for the target frame ends in this step
WaitEnds == seekPc = "waiting" /\ seekPc' = "woken"

\* C19: the seek thread's wait under hard fast forward ends only in a run
\* of the hook with frameIndex >= targetFrameNum, made while the thread
\* waits, hard fast forward being on since before the wait
WaitEndsAtTarget ==
    [][WaitEnds =>
           /\ hookPc = "body" /\ hookPc' = "idle"
           /\ inSlippiPlayback /\ frameIndex >= targetFrameNum
           /\ isHardFFW]_vars

\* ------------------------------------------------------------------------
\* Seeks near the end of a long replay under fair scheduling: the seek bar
\* is off, so no diff is stored, and the user seeks back to frame 2000 from
\* frame 2050 or from the frame before the last
\* ------------------------------------------------------------------------
InitSeekFair ==
    /\ \E at \in {2050, LongEnd - 1} :
           Constructed(LongEnd, FALSE, NoWatch, {Gesture(at, "seek", 2000)})
    /\ pureIn = NoArg
    /\ pureOut = NoArg

NextSeekFair ==
    \/ StartThreads
    \/ EngineAdvance
    \/ Hook
    \/ SaveCheck
    \/ SaveWait
    \/ SaveRead
    \/ SaveCapture
    \/ SeekBegin
    \/ SeekResolve
    \/ SeekPlan
    \/ SeekFFW
    \/ SeekWait
    \/ SeekSpurious
    \/ SeekWoken
    \/ SeekFinish
    \/ RequestSeekTo

\* every thread that can take a step takes it in the end, the machine runs
\* a frame whenever it can, and the user's seek arrives; a wait is not
\* bound to return without a notify
SpecSeekFair ==
    /\ InitSeekFair
    /\ [][NextSeekFair]_vars
    /\ WF_vars(StartThreads)
    /\ WF_vars(EngineAdvance)
    /\ WF_vars(Hook)
    /\ WF_vars(SavestateStep)
    /\ WF_vars(SeekStep)
    /\ WF_vars(RequestSeekTo)

\* the seek thread has turned hard fast forward on and waits, or is about
\* to wait, for the target frame
DrivingFFW == seekPc \in {"towait", "waiting"}

\* C20: under fair scheduling a seek that has started its hard fast forward
\* is woken and the seek thread is idle again in the end, also when the
\* hook reaches the target before the thread has begun to wait
SeekReturns == [](DrivingFFW => <>(seekPc = "idle"))

\* ------------------------------------------------------------------------
\* The replay of SpecDiffs under fair scheduling: the machine, the hook,
\* the savestate thread and every job take the steps they can take
\* ------------------------------------------------------------------------
FairDiffs ==
    /\ InitDiffs
    /\ [][NextDiffs]_vars
    /\ WF_vars(StartThreads)
    /\ WF_vars(EngineAdvance)
    /\ WF_vars(Hook)
    /\ WF_vars(SavestateStep)
    /\ WF_vars(DiffStart)
    /\ WF_vars(DiffDone)

\* the hook waits in cv_processingDiff.wait although the number of diffs
\* being processed is not above the cap
BlockedBelowCap == hookPc = "blocked" /\ numDiffsProcessing <= DiffCap

\* C21: under fair scheduling the hook does not stay blocked in
\* cv_processingDiff.wait for ever once the diffs being processed are no
\* more than the cap
HookResumes == ~<>[]BlockedBelowCap

\* C22: hard fast forward is on only while a seek fast forwards: whenever
\* the seek thread of the session is idle, between two seeks, isHardFFW is
\* false
HardOnlyInSeek == seekPc = "idle" => ~isHardFFW

\* inSlippiPlayback becomes true in this step
BecomesActive == ~inSlippiPlayback /\ inSlippiPlayback'

\* C23: inSlippiPlayback becomes true only when the savestate thread of a
\* running session saves the base state for the first save frame, so that
\* after resetPlayback it stays false until then; and while it is false the
\* seek thread does not pause the machine, load a state or change hard
\* fast forward
ActiveOnlyWithBase ==
    /\ [][BecomesActive =>
              /\ shouldRunThreads \/ resetPc = "clear"
              /\ savePc = "capture" /\ savePc' = "check"
              /\ fixedFrameNumber = PLAYBACK_FIRST_SAVE
              /\ iState' = SaveToBuffer]_vars
    /\ [][~inSlippiPlayback /\ SeekStep =>
              /\ coreState' = "pause" => coreState = "pause"
              /\ UNCHANGED <<loaded, game, frameIndex, isHardFFW>>]_vars

\* resetPlayback has returned and startThreads has not been called since
AfterReset == started /\ ~shouldRunThreads /\ resetPc = "idle"

\* C24: from the return of resetPlayback until the next startThreads
\* futureDiffs is empty, whatever the savestate thread was doing when
\* resetPlayback was called
StoreEmptyAfterReset == AfterReset => futureDiffs = <<>>

\* ------------------------------------------------------------------------
\* Short replays watched in queue mode with bounds on the frames shown,
\* while the user seeks inside and outside of them
\* ------------------------------------------------------------------------
Queue(s, e) == [mode |-> "queue", startFrame |-> s, endFrame |-> e]

WatchBounds ==
    {Queue(s, e) : s \in {GAME_FIRST_FRAME, -112, -108}, e \in {-106, -102, INT_MAX}}

WatchScripts ==
    {{Gesture(-115, "seek", t)} : t \in {-118, -110, -107, -104, -101}}
        \cup {{Gesture(-105, "back", 0)}}

InitWatch ==
    /\ \E w \in WatchBounds, scr \in WatchScripts :
           Constructed(ShortEnd, FALSE, w, scr)
    /\ pureIn = NoArg
    /\ pureOut = NoArg

NextWatch ==
    \/ StartThreads
    \/ EngineAdvance
    \/ Hook
    \/ SaveCheck
    \/ SaveWait
    \/ SaveRead
    \/ SaveCapture
    \/ SeekBegin
    \/ SeekResolve
    \/ SeekPlan
    \/ SeekFFW
    \/ SeekWait
    \/ SeekSpurious
    \/ SeekWoken
    \/ SeekFinish
    \/ RequestJumpBack
    \/ RequestSeekTo

SpecWatch == InitWatch /\ [][NextWatch]_vars

\* the bounds are at their defaults
DefaultBounds == watch.startFrame = GAME_FIRST_FRAME /\ watch.endFrame = INT_MAX

ReloadAt == Boundary(3) + 22

InitReload ==
    \E tgt \in {Boundary(3), Boundary(3) + 12},
       g \in {Gesture(Boundary(3), "seek", Boundary(3)),
              Gesture(Boundary(3) + 15, "seek", Boundary(3) + 5)} :
        Playing(ReloadAt, tgt, {3}, ReloadAt, FALSE, "idle", "run", "idle", {g})

NextReload ==
    \/ EngineAdvance
    \/ Hook
    \/ SeekBegin
    \/ SeekResolve
    \/ SeekPlan
    \/ SeekFFW
    \/ SeekWait
    \/ SeekSpurious
    \/ SeekWoken
    \/ SeekFinish
    \/ RequestSeekTo

SpecReload == InitReload /\ [][NextReload]_vars

\* the state of the frame loaded last is loaded again in this step
LoadedAgain ==
    /\ PlanStep
    /\ loaded.n >= 1
    /\ loaded'.n = loaded.n + 1
    /\ loaded'.key = loaded.key

SameFrames == HookCheckpoint <=> (shouldRunThreads /\ ~OffInterval)

\* C27: with the threads running and the seek bar on, a save frame after
\* the first that the machine plays through gets its entry in futureDiffs
\* in the end, the hook's notify finding the savestate thread waiting or
\* not; and the hook and the thread test for the same frames
BoundarySaved ==
    /\ [](frameIndex = Boundary(1) /\ hookPc = "idle" =>
              <>(Boundary(1) \in DOMAIN futureDiffs))
    /\ []SameFrames

\* shouldFFWFrame has returned with soft fast forward alone and lastFFWFrame
\* as the constructor left it
SoftFromStart ==
    /\ pureOut # NoArg
    /\ pureIn.fn = "ffw"
    /\ isSoftFFW
    /\ ~isHardFFW
    /\ lastFFWFrame = INT_MIN

\* C28: with soft fast forward alone and lastFFWFrame still INT_MIN,
\* shouldFFWFrame returns true for every frame of a replay, below zero or
\* not: frameIndex - lastFFWFrame never comes out below 15
SoftFromStartTrue == SoftFromStart => pureOut[1] = TRUE

====
